---- MODULE Spec2Model ----
(***************************************************************************)
(* Model of the `step ca certificate` and `step ca revoke` commands and of *)
(* the embedded (offline) CA client they share.                            *)
(*                                                                         *)
(* One invocation of a command is one behaviour: Init draws the command    *)
(* line (flags and positional arguments), the actions are the successive   *)
(* statements of the handler, and the environment (file system, prompts,   *)
(* network peer, embedded authority) answers nondeterministically at the   *)
(* step that consults it.                                                  *)
(*                                                                         *)
(* Strings that the code folds, compares or concatenates are sequences of  *)
(* one-character strings, so that strings.ToLower and strings.HasPrefix    *)
(* are computed; strings that are only tested for emptiness or equality    *)
(* are TLA+ strings.                                                       *)
(***************************************************************************)
EXTENDS Integers, Sequences, FiniteSets, TLC

\* ------------------------------------------------------------------ bounds

\* Longest --san list and longest token "sans" claim that Init draws.
MaxSans == 1

\* Longest provisioner list of an authority configuration.
MaxProvisioners == 2

\* Longest SAN list handed to CreateSignRequest when it is run alone, and
\* longest "sans" claim of the token handed to it.
MaxMergeSans == 2

\* ----------------------------------------------------------------- strings

UpperLetters ==
  << "A","B","C","D","E","F","G","H","I","J","K","L","M",
     "N","O","P","Q","R","S","T","U","V","W","X","Y","Z" >>

LowerLetters ==
  << "a","b","c","d","e","f","g","h","i","j","k","l","m",
     "n","o","p","q","r","s","t","u","v","w","x","y","z" >>

ToLowerChar(c) ==
  IF \E i \in 1..26 : UpperLetters[i] = c
  THEN LowerLetters[CHOOSE i \in 1..26 : UpperLetters[i] = c]
  ELSE c

ToLower(s) ==
  IF s = << >> THEN << >> ELSE [i \in 1..Len(s) |-> ToLowerChar(s[i])]

HasPrefix(s, p) ==
  Len(s) >= Len(p) /\ SubSeq(s, 1, Len(p)) = p

\* All sequences over S of length at most n.
RECURSIVE SeqsUpTo(_, _)
SeqsUpTo(S, n) ==
  IF n = 0 THEN { << >> }
  ELSE LET shorter == SeqsUpTo(S, n - 1)
       IN  shorter \cup { Append(q, x) : q \in { r \in shorter : Len(r) = n - 1 }, x \in S }

\* ------------------------------------------------------------------ errors

NoErr == [kind |-> "", flag |-> "", with |-> "", value |-> ""]

Err(kind) == [kind |-> kind, flag |-> "", with |-> "", value |-> ""]

\* errs.NumberOfArguments
NumberOfArguments(nargs, required) ==
  IF nargs = required THEN NoErr ELSE Err("NumberOfArguments")

\* errs.IncompatibleFlagWithFlag(ctx, flag, with)
IncompatibleFlagWithFlag(flag, with) ==
  [kind |-> "IncompatibleFlagWithFlag", flag |-> flag, with |-> with, value |-> ""]

\* errs.MutuallyExclusiveFlags(ctx, flag1, flag2)
MutuallyExclusiveFlags(flag1, flag2) ==
  [kind |-> "MutuallyExclusiveFlags", flag |-> flag1, with |-> flag2, value |-> ""]

\* errs.RequiredWithFlag(ctx, flag, required)
RequiredWithFlag(flag, required) ==
  [kind |-> "RequiredWithFlag", flag |-> flag, with |-> required, value |-> ""]

\* errs.RequiredUnlessFlag(ctx, flag, unless)
RequiredUnlessFlag(flag, unless) ==
  [kind |-> "RequiredUnlessFlag", flag |-> flag, with |-> unless, value |-> ""]

\* errs.RequiredFlag(ctx, flag)
RequiredFlag(flag) ==
  [kind |-> "RequiredFlag", flag |-> flag, with |-> "", value |-> ""]

\* errs.InvalidFlagValue(ctx, flag, value, "")
InvalidFlagValue(flag, value) ==
  [kind |-> "InvalidFlagValue", flag |-> flag, with |-> "", value |-> value]

\* ------------------------------------------------------------------ tokens

\* A token is the value of a string variable holding a compact JWS.  kind
\* "none" is the empty string, "bad" a non-empty string that jose.ParseSigned
\* or UnsafeClaimsWithoutVerification rejects, "jwt" a token whose claims
\* (tokenClaims / revokeTokenClaims) are the other fields.
NoToken ==
  [kind |-> "none", sub |-> << >>, sha |-> "", sans |-> << >>,
   email |-> << >>, aud |-> << >>]

BadToken ==
  [kind |-> "bad", sub |-> << >>, sha |-> "", sans |-> << >>,
   email |-> << >>, aud |-> << >>]

JWT(sub, sha, sans, email, aud) ==
  [kind |-> "jwt", sub |-> sub, sha |-> sha, sans |-> sans,
   email |-> email, aud |-> aud]

\* jose.ParseSigned followed by UnsafeClaimsWithoutVerification succeeds.
ParseOK(t) == t.kind = "jwt"

\* Values of the positional <subject> / <serial-number> argument.
Subjects == { << >>, <<"a">>, <<"A">> }

\* SAN values: a DNS name and an IP address.
SanNames == { <<"a">>, <<"1", ".", "1">> }

SanLists == SeqsUpTo(SanNames, MaxSans)

HttpsAudience == <<"H", "t", "t", "p", "s", ":", "c", "a">>

OtherAudience == <<"f", "t", "p", ":", "c", "a">>

TokenSubjects == { <<"a">>, <<"b">> }

TokenEmails == { << >>, <<"A">> }

TokenAudiences == { << >>, <<HttpsAudience>>, <<OtherAudience>> }

TokenSanLists == { << >>, << <<"a">> >> }

SuppliedTokens ==
  { BadToken } \cup
  { JWT(sub, sha, sans, email, aud) :
      sub \in TokenSubjects, sha \in {"", "fp"}, sans \in TokenSanLists,
      email \in TokenEmails, aud \in TokenAudiences }

\* isStepCertificatesToken
isStepCertificatesToken(t) ==
  IF ~ParseOK(t) THEN FALSE
  ELSE t.sha # "" \/ Len(t.sans) > 0

\* ------------------------------------------------- certificate request (CSR)

\* uniqueSANs without the test of the map: every SAN is appended.
uniqueSANs_KeepDuplicates(sans, unique) == unique \o sans

\* The SANs of all the lists, in order of first occurrence, without
\* duplicates (the loop of splitSANs).
RECURSIVE uniqueSANs(_, _)
uniqueSANs(sans, unique) ==
  IF sans = << >> THEN unique
  ELSE IF \E i \in 1..Len(unique) : unique[i] = Head(sans)
       THEN uniqueSANs(Tail(sans), unique)
       ELSE uniqueSANs(Tail(sans), Append(unique, Head(sans)))

\* net.ParseIP on the SAN values of the model: dotted digits.
IsIP(san) ==
  /\ san # << >>
  /\ \A i \in 1..Len(san) : san[i] \in {"0","1","2","3","4","5","6","7","8","9","."}

\* x509util.SplitSANs: the DNS names and the IP addresses, order kept.
RECURSIVE SelectSANs(_, _)
SelectSANs(sans, ip) ==
  IF sans = << >> THEN << >>
  ELSE IF IsIP(Head(sans)) = ip
       THEN << Head(sans) >> \o SelectSANs(Tail(sans), ip)
       ELSE SelectSANs(Tail(sans), ip)

splitSANs(a, b) ==
  LET unique == uniqueSANs(a \o b, << >>)
  IN  [dnsNames |-> SelectSANs(unique, FALSE), ipAddresses |-> SelectSANs(unique, TRUE)]

NoCSR ==
  [built |-> FALSE, cn |-> << >>, dnsNames |-> << >>, ipAddresses |-> << >>,
   emails |-> << >>]

\* The certificate request of CreateSignRequest for a parsed token.
CreateSignRequest(t, sans) ==
  LET split == splitSANs(sans, t.sans)
  IN  [built |-> TRUE, cn |-> t.sub,
       dnsNames |-> split.dnsNames, ipAddresses |-> split.ipAddresses,
       emails |-> IF t.email # << >> THEN << t.email >> ELSE << >>]

\* ------------------------------------------------- authority configuration

Provisioner(name, kid, encryptedKey) ==
  [name |-> name, kid |-> kid, encryptedKey |-> encryptedKey]

\* Key ids and names are not unique in the pool; one provisioner has no
\* encryptedKey property.
ProvisionerPool ==
  { Provisioner("acme", "K1", "jwe1"),
    Provisioner("acme", "K2", "jwe2"),
    Provisioner("ops", "K1", "") }

DNSNameLists == { << >>, << <<"c", "a">> >> }

\* authority.Config as json.Unmarshal can return it.
Configs ==
  [provisioners : SeqsUpTo(ProvisionerPool, MaxProvisioners),
   dnsNames : DNSNameLists,
   root : {"root_ca.crt"}]

NoCA == [built |-> FALSE, provisioners |-> << >>, dnsNames |-> << >>, root |-> ""]

\* newOfflineCA: readOK, parseOK and authOK are the outcomes of
\* utils.ReadFile, json.Unmarshal and authority.New.
newOfflineCA(readOK, parseOK, config, authOK) ==
  IF ~readOK THEN [err |-> Err("ReadFile"), ca |-> NoCA]
  ELSE IF ~parseOK THEN [err |-> Err("Unmarshal"), ca |-> NoCA]
  ELSE IF Len(config.provisioners) = 0 THEN [err |-> Err("NoProvisioners"), ca |-> NoCA]
  ELSE IF ~authOK THEN [err |-> Err("authority.New"), ca |-> NoCA]
  ELSE [err |-> NoErr,
        ca |-> [built |-> TRUE, provisioners |-> config.provisioners,
                dnsNames |-> config.dnsNames, root |-> config.root]]

\* offlineCA.Audience: "https://" + DNSNames[0] + "/sign".
Audience(c) == <<"h","t","t","p","s",":","/","/">> \o c.dnsNames[1] \o <<"/","s","i","g","n">>

\* provisionerFilter: the provisioners that satisfy the predicate, order
\* kept; the predicates passed compare one field (kid, name) with a value.
provisionerFilter(provisioners, field, value) ==
  LET f(p) == p[field] = value IN SelectSeq(provisioners, f)

\* token.WithRootCA / WithSHA: the fingerprint claim of a generated token.
Fingerprint(root) == IF root = "" THEN "" ELSE "fp"

\* generateToken: the claims embed the subject, SANs, audience and root.
generateToken(subject, sans, audience, root) ==
  JWT(subject, Fingerprint(root), sans, << >>, << audience >>)

\* newTokenFlow, online: the audience is the CA URL.
newTokenFlow(subject, sans, caURL, root) ==
  generateToken(subject, sans, caURL, root)

\* ---------------------------------------------------------------- CA client

NoClient == [kind |-> "none", caURL |-> << >>, trust |-> "", root |-> ""]

\* The embedded variant.
OfflineClient == [kind |-> "offline", caURL |-> << >>, trust |-> "", root |-> ""]

\* ca.NewClient(caURL, ca.WithRootSHA256(sha))
ClientWithRootSHA256(caURL, sha) ==
  [kind |-> "remote", caURL |-> caURL, trust |-> "sha256", root |-> sha]

\* ca.NewClient(caURL, ca.WithRootFile(root))
ClientWithRootFile(caURL, root) ==
  [kind |-> "remote", caURL |-> caURL, trust |-> "rootfile", root |-> root]

\* ca.NewClient(caURL, ca.WithTransport(tr)), tr presenting the client
\* certificate and trusting the pool read from rootFile.
ClientWithTransport(caURL, rootFile) ==
  [kind |-> "remote", caURL |-> caURL, trust |-> "mtls", root |-> rootFile]

\* pki.GetRootCAPath
DefaultRootCAPath == "default_root_ca.crt"

\* tokenClient preferring --ca-url and the root file to the claims of the
\* token.
tokenClient_FlagsFirst(claims, caURL, root, exists) ==
  IF Len(caURL) = 0 /\ claims.sha # "" /\ Len(claims.aud) > 0
       /\ HasPrefix(ToLower(claims.aud[1]), <<"h","t","t","p">>)
  THEN [err |-> NoErr, client |-> ClientWithRootSHA256(claims.aud[1], claims.sha), stat |-> FALSE]
  ELSE IF Len(caURL) = 0
       THEN [err |-> RequiredFlag("ca-url"), client |-> NoClient, stat |-> FALSE]
       ELSE IF root = ""
            THEN IF ~exists
                 THEN [err |-> RequiredFlag("root"), client |-> NoClient, stat |-> TRUE]
                 ELSE [err |-> NoErr, client |-> ClientWithRootFile(caURL, DefaultRootCAPath), stat |-> TRUE]
            ELSE [err |-> NoErr, client |-> ClientWithRootFile(caURL, root), stat |-> FALSE]

\* The part of getClient that both flows share for a parsed token whose
\* subject matched: bootstrap by fingerprint, or --ca-url with a root file.
\* exists is the outcome of os.Stat on the default root path.
tokenClient(claims, caURL, root, exists) ==
  IF claims.sha # "" /\ Len(claims.aud) > 0 /\ HasPrefix(ToLower(claims.aud[1]), <<"h","t","t","p">>)
  THEN [err |-> NoErr, client |-> ClientWithRootSHA256(claims.aud[1], claims.sha), stat |-> FALSE]
  ELSE IF Len(caURL) = 0
       THEN [err |-> RequiredFlag("ca-url"), client |-> NoClient, stat |-> FALSE]
       ELSE IF root = ""
            THEN IF ~exists
                 THEN [err |-> RequiredFlag("root"), client |-> NoClient, stat |-> TRUE]
                 ELSE [err |-> NoErr, client |-> ClientWithRootFile(caURL, DefaultRootCAPath), stat |-> TRUE]
            ELSE [err |-> NoErr, client |-> ClientWithRootFile(caURL, root), stat |-> FALSE]

\* ------------------------------------------------------ revocation reasons

\* RevocationReasonCodes: the keys with the values of the ocsp constants.
RevocationReasonCodes ==
  { <<<<"u","n","s","p","e","c","i","f","i","e","d">>, 0>>,
    <<<<"k","e","y","c","o","m","p","r","o","m","i","s","e">>, 1>>,
    <<<<"c","a","c","o","m","p","r","o","m","i","s","e">>, 2>>,
    <<<<"a","f","f","i","l","i","a","t","i","o","n","c","h","a","n","g","e","d">>, 3>>,
    <<<<"s","u","p","e","r","s","e","d","e","d">>, 4>>,
    <<<<"c","e","s","s","a","t","i","o","n","o","f","o","p","e","r","a","t","i","o","n">>, 5>>,
    <<<<"c","e","r","t","i","f","i","c","a","t","e","h","o","l","d">>, 6>>,
    <<<<"r","e","m","o","v","e","f","r","o","m","c","r","l">>, 8>>,
    <<<<"p","r","i","v","i","l","e","g","e","w","i","t","h","d","r","a","w","n">>, 9>>,
    <<<<"a","a","c","o","m","p","r","o","m","i","s","e">>, 10>> }

\* ReasonStringToCode looking the reason up as spelled.
ReasonStringToCode_CaseSensitive(reason) ==
  IF reason = << >> THEN [code |-> 0, err |-> NoErr]
  ELSE IF \E e \in RevocationReasonCodes : e[1] = reason
       THEN [code |-> (CHOOSE e \in RevocationReasonCodes : e[1] = reason)[2],
             err |-> NoErr]
       ELSE [code |-> 0, err |-> Err("UnrecognizedRevocationReason")]

\* ReasonStringToCode
ReasonStringToCode(reason) ==
  IF reason = << >> THEN [code |-> 0, err |-> NoErr]
  ELSE IF \E e \in RevocationReasonCodes : e[1] = ToLower(reason)
       THEN [code |-> (CHOOSE e \in RevocationReasonCodes : e[1] = ToLower(reason))[2],
             err |-> NoErr]
       ELSE [code |-> 0, err |-> Err("UnrecognizedRevocationReason")]

\* The reason names as the usage text of --reason spells them.
ReasonNames ==
  { <<"U","n","s","p","e","c","i","f","i","e","d">>,
    <<"K","e","y","C","o","m","p","r","o","m","i","s","e">>,
    <<"C","A","C","o","m","p","r","o","m","i","s","e">>,
    <<"A","f","f","i","l","i","a","t","i","o","n","C","h","a","n","g","e","d">>,
    <<"S","u","p","e","r","s","e","d","e","d">>,
    <<"C","e","s","s","a","t","i","o","n","O","f","O","p","e","r","a","t","i","o","n">>,
    <<"C","e","r","t","i","f","i","c","a","t","e","H","o","l","d">>,
    <<"R","e","m","o","v","e","F","r","o","m","C","R","L">>,
    <<"P","r","i","v","i","l","e","g","e","W","i","t","h","d","r","a","w","n">>,
    <<"A","A","C","o","m","p","r","o","m","i","s","e">> }

ToUpperChar(c) ==
  IF \E i \in 1..26 : LowerLetters[i] = c
  THEN UpperLetters[CHOOSE i \in 1..26 : LowerLetters[i] = c]
  ELSE c

ToUpper(s) ==
  IF s = << >> THEN << >> ELSE [i \in 1..Len(s) |-> ToUpperChar(s[i])]

\* Strings that are no reason name: a misspelling, a prefix of a name, a
\* name followed by a blank, a number.
UnknownReasons ==
  { <<"b","o","g","u","s">>,
    <<"K","e","y">>,
    <<"K","e","y","C","o","m","p","r","o","m","i","s","e"," ">>,
    <<"1">>,
    <<"K","e","y","C","o","m","p","r","o","m","i","s","e","d">> }

\* Values of --reason: unset, every name in three spellings, other strings.
AllReasons ==
  { << >> } \cup ReasonNames \cup { ToLower(r) : r \in ReasonNames }
    \cup { ToUpper(r) : r \in ReasonNames } \cup UnknownReasons

\* Values of --reason in the runs of the whole commands.
FlowReasons == { << >>, <<"K","e","y","C","o","m","p","r","o","m","i","s","e">>, <<"b","o","g","u","s">> }

\* ------------------------------------------------------------------- state

VARIABLES
  flow,        \* the operation that runs: "issue", "revoke", "token" (GenerateToken alone)
               \* or "csr" (CreateSignRequest alone)
  ctx,         \* the cli.Context: flags and positional arguments
  pc,          \* the statement the handler is at
  err,         \* the error the handler returned, NoErr until then
  token,       \* the local variable token of the handler
  generated,   \* the token was generated by this invocation
  offlineCA,   \* the flow's offlineCA, NoCA when nil
  tg,          \* locals of offlineCA.GenerateToken
  isStepToken, \* the local variable isStepToken of certificateAction
  csr,         \* req.CsrPEM, NoCSR until CreateSignRequest returned
  client,      \* the caClient that getClient returned
  request,     \* the api.SignRequest / api.RevokeRequest handed to the client
  authCall,    \* the call of authority.Revoke by the embedded client
  statRoot,    \* outcome of os.Stat on the default root path, once consulted
  crtWritten,  \* the certificate file has been written
  keyWritten,  \* the private key file has been written
  printed,     \* the success message has been printed
  log          \* the calls made so far, oldest first

vars ==
  << flow, ctx, pc, err, token, generated, offlineCA, tg, isStepToken, csr,
     client, request, authCall, statRoot, crtWritten, keyWritten, printed, log >>

NoFrame ==
  [typ |-> "", subject |-> << >>, sans |-> << >>, kid |-> "", issuer |-> "",
   encryptedKey |-> "", provisioners |-> << >>, audience |-> << >>, root |-> ""]

NoRequest == [op |-> "", subject |-> << >>, reason |-> << >>, ott |-> NoToken]

NoAuthCall == [called |-> FALSE, serial |-> << >>, code |-> 0]

CAURLs == { << >>, <<"h", "t", "t", "p", "s", ":", "u">> }

\* Command lines of `step ca certificate`.  The command defines no --crt,
\* --key, --reason, --kid or --issuer flag, so ctx.String gives "" for them.
CertificateContexts ==
  [nargs : {1, 3}, subject : Subjects, token : {NoToken} \cup SuppliedTokens,
   offline : BOOLEAN, sans : SanLists, caConfig : {"", "ca.json"},
   caURL : CAURLs, root : {"", "root.crt"}, crt : {""}, key : {""},
   reason : {<< >>}, kid : {""}, issuer : {""}]

\* Command lines of `step ca revoke`.  The command defines no --san, --kid
\* or --issuer flag.
RevokeContexts ==
  [nargs : {1, 3}, subject : Subjects, token : {NoToken} \cup SuppliedTokens,
   offline : BOOLEAN, sans : {<< >>}, caConfig : {"", "ca.json"},
   caURL : CAURLs, root : {"", "root.crt"}, crt : {"", "a.crt"}, key : {"", "a.key"},
   reason : FlowReasons, kid : {""}, issuer : {""}]

InitLocals ==
  /\ err = NoErr
  /\ token = NoToken
  /\ generated = FALSE
  /\ tg = NoFrame
  /\ isStepToken = FALSE
  /\ csr = NoCSR
  /\ client = NoClient
  /\ request = NoRequest
  /\ authCall = NoAuthCall
  /\ statRoot = "unknown"
  /\ crtWritten = FALSE
  /\ keyWritten = FALSE
  /\ printed = FALSE
  /\ log = << >>

Init ==
  /\ flow \in {"issue", "revoke"}
  /\ ctx \in IF flow = "issue" THEN CertificateContexts ELSE RevokeContexts
  /\ pc = "start"
  /\ offlineCA = NoCA
  /\ InitLocals

\* The handler returns the error e.
Fail(e) == pc' = "done" /\ err' = e

Files == << crtWritten, keyWritten, printed >>

\* --------------------------------------------------------- certificateAction

\* CertStart without the offline/token check.
CertStart_NoConflictCheck ==
  /\ flow = "issue" /\ pc = "start"
  /\ LET e == NumberOfArguments(ctx.nargs, 3)
     IN  IF e # NoErr THEN Fail(e) /\ UNCHANGED token
         ELSE pc' = "newFlow" /\ token' = ctx.token /\ UNCHANGED err
  /\ UNCHANGED << flow, ctx, generated, offlineCA, tg, isStepToken, csr, client,
                  request, authCall, statRoot, Files, log >>

\* certificateAction up to the offline/token check.
CertStart ==
  /\ flow = "issue" /\ pc = "start"
  /\ LET e == NumberOfArguments(ctx.nargs, 3)
     IN  IF e # NoErr THEN Fail(e) /\ UNCHANGED token
         ELSE IF ctx.offline /\ ctx.token.kind # "none"
              THEN Fail(IncompatibleFlagWithFlag("offline", "token")) /\ token' = ctx.token
              ELSE pc' = "newFlow" /\ token' = ctx.token /\ UNCHANGED err
  /\ UNCHANGED << flow, ctx, generated, offlineCA, tg, isStepToken, csr, client,
                  request, authCall, statRoot, Files, log >>

\* newCertificateFlow
CertNewFlow ==
  /\ flow = "issue" /\ pc = "newFlow"
  /\ IF ~ctx.offline
     THEN pc' = "token" /\ UNCHANGED << err, offlineCA, log >>
     ELSE IF ctx.caConfig = ""
          THEN Fail(InvalidFlagValue("ca-config", "")) /\ UNCHANGED << offlineCA, log >>
          ELSE \E readOK \in BOOLEAN, parseOK \in BOOLEAN, authOK \in BOOLEAN, config \in Configs :
                 LET r == newOfflineCA(readOK, parseOK, config, authOK)
                 IN  /\ log' = Append(log, "newOfflineCA")
                     /\ offlineCA' = r.ca
                     /\ IF r.err # NoErr THEN Fail(r.err) ELSE pc' = "token" /\ UNCHANGED err
  /\ UNCHANGED << flow, ctx, token, generated, tg, isStepToken, csr, client,
                  request, authCall, statRoot, Files >>

\* certificateAction with a --token: the token/san check.
CertTokenSupplied ==
  /\ flow = "issue" /\ pc = "token" /\ token.kind # "none"
  /\ isStepToken' = isStepCertificatesToken(token)
  /\ IF isStepToken' /\ Len(ctx.sans) > 0
     THEN Fail(MutuallyExclusiveFlags("token", "san"))
     ELSE pc' = "csr" /\ UNCHANGED err
  /\ UNCHANGED << flow, ctx, token, generated, offlineCA, tg, csr, client,
                  request, authCall, statRoot, Files, log >>

\* certificateFlow.GenerateToken, offline: enters offlineCA.GenerateToken.
CertTokenOffline ==
  /\ flow = "issue" /\ pc = "token" /\ token.kind = "none" /\ ctx.offline
  /\ pc' = "tok.prepare"
  /\ tg' = [NoFrame EXCEPT !.typ = "sign", !.subject = ctx.subject, !.sans = ctx.sans]
  /\ log' = Append(log, "GenerateToken")
  /\ UNCHANGED << flow, ctx, err, token, generated, offlineCA, isStepToken, csr,
                  client, request, authCall, statRoot, Files >>

\* The online part of certificateFlow.GenerateToken and of
\* revokeFlow.GenerateToken: the result for the outcomes exists (os.Stat of
\* the default root), nbOK and naOK (flags.ParseTimeOrDuration), prompt (the
\* answer of ui.Prompt, << >> when it fails) and flowOK (newTokenFlow).
onlineGenerateToken(subject, sans, caURL, root, exists, nbOK, naOK, prompt, flowOK) ==
  IF Len(caURL) = 0
  THEN [err |-> RequiredUnlessFlag("ca-url", "token"), token |-> NoToken, stat |-> FALSE]
  ELSE IF root = "" /\ ~exists
  THEN [err |-> RequiredUnlessFlag("root", "token"), token |-> NoToken, stat |-> TRUE]
  ELSE IF ~nbOK
  THEN [err |-> InvalidFlagValue("not-before", "?"), token |-> NoToken, stat |-> root = ""]
  ELSE IF ~naOK
  THEN [err |-> InvalidFlagValue("not-after", "?"), token |-> NoToken, stat |-> root = ""]
  ELSE IF subject = << >> /\ prompt = << >>
  THEN [err |-> Err("Prompt"), token |-> NoToken, stat |-> root = ""]
  ELSE IF ~flowOK
  THEN [err |-> Err("newTokenFlow"), token |-> NoToken, stat |-> root = ""]
  ELSE [err |-> NoErr,
        token |-> newTokenFlow(IF subject = << >> THEN prompt ELSE subject, sans, caURL,
                               IF root = "" THEN DefaultRootCAPath ELSE root),
        stat |-> root = ""]

\* Answers of ui.Prompt: a failure, or one of the non-empty subjects.
PromptAnswers == { << >>, <<"a">>, <<"b">> }

StatOutcome(stat, exists) ==
  IF stat THEN (IF exists THEN "exists" ELSE "missing") ELSE statRoot

\* certificateFlow.GenerateToken, online.
CertTokenOnline ==
  /\ flow = "issue" /\ pc = "token" /\ token.kind = "none" /\ ~ctx.offline
  /\ \E exists \in BOOLEAN, nbOK \in BOOLEAN, naOK \in BOOLEAN,
        prompt \in PromptAnswers, flowOK \in BOOLEAN :
       LET r == onlineGenerateToken(ctx.subject, ctx.sans, ctx.caURL, ctx.root,
                                    exists, nbOK, naOK, prompt, flowOK)
       IN  /\ statRoot' = StatOutcome(r.stat, exists)
           /\ token' = r.token
           /\ generated' = (r.err = NoErr)
           /\ IF r.err # NoErr
              THEN Fail(r.err) /\ UNCHANGED isStepToken
              ELSE /\ isStepToken' = isStepCertificatesToken(r.token)
                   /\ pc' = "csr" /\ UNCHANGED err
  /\ log' = Append(log, "GenerateToken")
  /\ UNCHANGED << flow, ctx, offlineCA, tg, csr, client, request, authCall, Files >>

\* certificateFlow.CreateSignRequest.  keyOK and csrOK are the outcomes of
\* keys.GenerateDefaultKey and of creating, parsing and checking the CSR.
CertCreateSignRequest ==
  /\ flow \in {"issue", "csr"} /\ pc = "csr"
  /\ log' = Append(log, "CreateSignRequest")
  /\ IF ~ParseOK(token)
     THEN Fail(Err("TokenParse")) /\ UNCHANGED csr
     ELSE \E keyOK \in BOOLEAN, csrOK \in BOOLEAN :
            IF ~keyOK THEN Fail(Err("GenerateDefaultKey")) /\ UNCHANGED csr
            ELSE IF ~csrOK THEN Fail(Err("CreateCertificateRequest")) /\ UNCHANGED csr
            ELSE csr' = CreateSignRequest(token, ctx.sans) /\ pc' = "validate" /\ UNCHANGED err
  /\ UNCHANGED << flow, ctx, token, generated, offlineCA, tg, isStepToken, client,
                  request, authCall, statRoot, Files >>

\* CertValidate comparing the subject and the common name without folding.
CertValidate_CaseSensitive ==
  /\ flow = "issue" /\ pc = "validate"
  /\ IF isStepToken
     THEN IF ctx.subject # csr.cn
          THEN Fail(Err("TokenSubjectMismatch"))
          ELSE pc' = "getClient" /\ UNCHANGED err
     ELSE IF Len(csr.emails) = 0
          THEN Fail(Err("NoEmailClaim"))
          ELSE IF csr.emails[1] # ctx.subject
               THEN Fail(Err("TokenEmailMismatch"))
               ELSE pc' = "getClient" /\ UNCHANGED err
  /\ UNCHANGED << flow, ctx, token, generated, offlineCA, tg, isStepToken, csr,
                  client, request, authCall, statRoot, Files, log >>

\* certificateAction: the subject against the common name or the email.
CertValidate ==
  /\ flow = "issue" /\ pc = "validate"
  /\ IF isStepToken
     THEN IF ToLower(ctx.subject) # ToLower(csr.cn)
          THEN Fail(Err("TokenSubjectMismatch"))
          ELSE pc' = "getClient" /\ UNCHANGED err
     ELSE IF Len(csr.emails) = 0
          THEN Fail(Err("NoEmailClaim"))
          ELSE IF csr.emails[1] # ctx.subject
               THEN Fail(Err("TokenEmailMismatch"))
               ELSE pc' = "getClient" /\ UNCHANGED err
  /\ UNCHANGED << flow, ctx, token, generated, offlineCA, tg, isStepToken, csr,
                  client, request, authCall, statRoot, Files, log >>

\* certificateFlow.getClient.  exists is the outcome of os.Stat on the
\* default root path and newOK that of ca.NewClient.
certificateGetClient(offline, subject, t, caURL, root, exists, newOK) ==
  IF offline
  THEN [err |-> NoErr, client |-> OfflineClient, stat |-> FALSE, dialed |-> FALSE]
  ELSE IF ~ParseOK(t)
  THEN [err |-> Err("TokenParseFlag"), client |-> NoClient, stat |-> FALSE, dialed |-> FALSE]
  ELSE IF ToLower(t.sub) # ToLower(subject)
  THEN [err |-> Err("TokenSubjectMismatch"), client |-> NoClient, stat |-> FALSE, dialed |-> FALSE]
  ELSE LET r == tokenClient(t, caURL, root, exists)
       IN  IF r.err # NoErr
           THEN [err |-> r.err, client |-> NoClient, stat |-> r.stat, dialed |-> FALSE]
           ELSE IF ~newOK
                THEN [err |-> Err("NewClient"), client |-> NoClient, stat |-> r.stat, dialed |-> TRUE]
                ELSE [err |-> NoErr, client |-> r.client, stat |-> r.stat, dialed |-> TRUE]

\* certificateFlow.Sign: the call of getClient.
CertGetClient ==
  /\ flow = "issue" /\ pc = "getClient"
  /\ \E exists \in BOOLEAN, newOK \in BOOLEAN :
       LET r == certificateGetClient(ctx.offline, csr.cn, token, ctx.caURL, ctx.root,
                                     exists, newOK)
       IN  /\ statRoot' = StatOutcome(r.stat, exists)
           /\ client' = r.client
           /\ log' = IF r.dialed THEN log \o << "getClient", "NewClient" >>
                     ELSE Append(log, "getClient")
           /\ IF r.err # NoErr THEN Fail(r.err) ELSE pc' = "validity" /\ UNCHANGED err
  /\ UNCHANGED << flow, ctx, token, generated, offlineCA, tg, isStepToken, csr,
                  request, authCall, Files >>

\* certificateFlow.Sign: parseValidity.
CertParseValidity ==
  /\ flow = "issue" /\ pc = "validity"
  /\ \E ok \in BOOLEAN :
       IF ok THEN pc' = "sign" /\ UNCHANGED err ELSE Fail(Err("parseValidity"))
  /\ UNCHANGED << flow, ctx, token, generated, offlineCA, tg, isStepToken, csr,
                  client, request, authCall, statRoot, Files, log >>

\* The errors client.Sign can return: offlineCA.Sign fails in
\* authority.Authorize or in authority.Sign, the remote client in the call.
SignErrors(c) ==
  IF c.kind = "offline"
  THEN { Err("authority.Authorize"), Err("authority.Sign") }
  ELSE { Err("ca.Sign") }

\* CertSign followed by the write of the certificate file whatever
\* client.Sign returned.
CertSign_WriteOnError ==
  /\ flow = "issue" /\ pc = "sign"
  /\ request' = [op |-> "Sign", subject |-> csr.cn, reason |-> << >>, ott |-> token]
  /\ crtWritten' = TRUE
  /\ \E e \in { NoErr } \cup SignErrors(client) :
       IF e # NoErr
       THEN Fail(e) /\ log' = log \o << "Sign", "WriteCrt" >>
       ELSE /\ pc' = "writeKey" /\ UNCHANGED err
            /\ log' = log \o << "Sign", "SignResponse", "Serialize", "WriteCrt" >>
  /\ UNCHANGED << flow, ctx, token, generated, offlineCA, tg, isStepToken, csr,
                  client, authCall, statRoot, keyWritten, printed >>

\* certificateFlow.Sign: the request and client.Sign.
CertSign ==
  /\ flow = "issue" /\ pc = "sign"
  /\ request' = [op |-> "Sign", subject |-> csr.cn, reason |-> << >>, ott |-> token]
  /\ \E e \in { NoErr } \cup SignErrors(client) :
       IF e # NoErr
       THEN Fail(e) /\ log' = Append(log, "Sign")
       ELSE /\ pc' = "writeCrt" /\ UNCHANGED err
            /\ log' = log \o << "Sign", "SignResponse" >>
  /\ UNCHANGED << flow, ctx, token, generated, offlineCA, tg, isStepToken, csr,
                  client, authCall, statRoot, Files >>

\* certificateFlow.Sign: both certificates serialized, then utils.WriteFile.
CertWriteCrt ==
  /\ flow = "issue" /\ pc = "writeCrt"
  /\ \E serverOK \in BOOLEAN, caOK \in BOOLEAN, writeOK \in BOOLEAN :
       IF ~serverOK THEN Fail(Err("SerializeServer")) /\ UNCHANGED << crtWritten, log >>
       ELSE IF ~caOK THEN Fail(Err("SerializeCA")) /\ UNCHANGED << crtWritten, log >>
       ELSE /\ log' = log \o << "Serialize", "WriteCrt" >>
            /\ IF ~writeOK
               THEN Fail(Err("WriteFile")) /\ UNCHANGED crtWritten
               ELSE crtWritten' = TRUE /\ pc' = "writeKey" /\ UNCHANGED err
  /\ UNCHANGED << flow, ctx, token, generated, offlineCA, tg, isStepToken, csr,
                  client, request, authCall, statRoot, keyWritten, printed >>

\* certificateAction: pemutil.Serialize of the key to its file, the messages.
CertWriteKey ==
  /\ flow = "issue" /\ pc = "writeKey"
  /\ log' = Append(log, "WriteKey")
  /\ \E writeOK \in BOOLEAN :
       IF ~writeOK
       THEN Fail(Err("SerializeKey")) /\ UNCHANGED << keyWritten, printed >>
       ELSE keyWritten' = TRUE /\ printed' = TRUE /\ pc' = "done" /\ UNCHANGED err
  /\ UNCHANGED << flow, ctx, token, generated, offlineCA, tg, isStepToken, csr,
                  client, request, authCall, statRoot, crtWritten >>

\* --------------------------------------------------- offlineCA.GenerateToken

\* The continuation of a flow after its token has been generated.
AfterToken == IF flow = "issue" THEN "csr" ELSE IF flow = "revoke" THEN "revoke" ELSE "done"

\* Root, Audience, parseValidity, Provisioners.
TokPrepare ==
  /\ pc = "tok.prepare"
  /\ IF offlineCA.dnsNames = << >>
     THEN Fail(Err("panic: index out of range")) /\ UNCHANGED tg
     ELSE \E ok \in BOOLEAN :
            IF ~ok THEN Fail(Err("parseValidity")) /\ UNCHANGED tg
            ELSE /\ tg' = [tg EXCEPT !.root = offlineCA.root,
                                     !.audience = Audience(offlineCA),
                                     !.provisioners = offlineCA.provisioners]
                 /\ pc' = "tok.filter" /\ UNCHANGED err
  /\ UNCHANGED << flow, ctx, token, generated, offlineCA, isStepToken, csr, client,
                  request, authCall, statRoot, Files, log >>

\* filterProvisioners keeping the list as it was when a filter leaves none.
filterProvisioners_Fallback(provisioners, kid, issuer) ==
  LET byKid == IF kid # ""
               THEN provisionerFilter(provisioners, "kid", kid)
               ELSE provisioners
      keptKid == IF Len(byKid) = 0 THEN provisioners ELSE byKid
      byIssuer == IF issuer # ""
                  THEN provisionerFilter(keptKid, "name", issuer)
                  ELSE keptKid
      keptIssuer == IF Len(byIssuer) = 0 THEN keptKid ELSE byIssuer
  IN  [err |-> NoErr, provisioners |-> keptIssuer]

\* The provisioners left by the --kid filter, then by the --issuer filter.
filterProvisioners(provisioners, kid, issuer) ==
  LET byKid == IF kid # ""
               THEN provisionerFilter(provisioners, "kid", kid)
               ELSE provisioners
      byIssuer == IF issuer # ""
                  THEN provisionerFilter(byKid, "name", issuer)
                  ELSE byKid
  IN  IF kid # "" /\ Len(byKid) = 0
      THEN [err |-> InvalidFlagValue("kid", kid), provisioners |-> byKid]
      ELSE IF issuer # "" /\ Len(byIssuer) = 0
           THEN [err |-> InvalidFlagValue("issuer", issuer), provisioners |-> byIssuer]
           ELSE [err |-> NoErr, provisioners |-> byIssuer]

\* Filter by kid, filter by issuer.
TokFilter ==
  /\ pc = "tok.filter"
  /\ LET r == filterProvisioners(tg.provisioners, ctx.kid, ctx.issuer)
     IN  /\ tg' = [tg EXCEPT !.provisioners = r.provisioners,
                             !.kid = ctx.kid, !.issuer = ctx.issuer]
         /\ IF r.err # NoErr THEN Fail(r.err) ELSE pc' = "tok.select" /\ UNCHANGED err
  /\ UNCHANGED << flow, ctx, token, generated, offlineCA, isStepToken, csr, client,
                  request, authCall, statRoot, Files, log >>

\* The only provisioner left, or the one that ui.Select returns.
TokSelect ==
  /\ pc = "tok.select"
  /\ IF Len(tg.provisioners) = 1
     THEN /\ tg' = [tg EXCEPT !.kid = tg.provisioners[1].kid,
                              !.issuer = tg.provisioners[1].name,
                              !.encryptedKey = tg.provisioners[1].encryptedKey]
          /\ pc' = "tok.decrypt" /\ UNCHANGED err
     ELSE \/ Fail(Err("Select")) /\ UNCHANGED tg
          \/ \E i \in 1..Len(tg.provisioners) :
               /\ tg' = [tg EXCEPT !.kid = tg.provisioners[i].kid,
                                   !.issuer = tg.provisioners[i].name,
                                   !.encryptedKey = tg.provisioners[i].encryptedKey]
               /\ pc' = "tok.decrypt" /\ UNCHANGED err
  /\ UNCHANGED << flow, ctx, token, generated, offlineCA, isStepToken, csr, client,
                  request, authCall, statRoot, Files, log >>

\* jose.Decrypt of the encrypted key, json.Unmarshal, generateToken.
TokSign ==
  /\ pc = "tok.decrypt"
  /\ IF tg.encryptedKey = ""
     THEN Fail(Err("NoEncryptedKey")) /\ UNCHANGED << token, generated, isStepToken >>
     ELSE \E e \in { NoErr, Err("Decrypt"), Err("UnmarshalKey"), Err("generateToken") } :
            IF e # NoErr
            THEN Fail(e) /\ UNCHANGED << token, generated, isStepToken >>
            ELSE /\ token' = generateToken(tg.subject, tg.sans, tg.audience, tg.root)
                 /\ generated' = TRUE
                 /\ isStepToken' = IF flow = "issue" THEN isStepCertificatesToken(token')
                                   ELSE isStepToken
                 /\ pc' = AfterToken /\ UNCHANGED err
  /\ UNCHANGED << flow, ctx, offlineCA, tg, csr, client, request, authCall,
                  statRoot, Files, log >>

\* ---------------------------------------------------- revokeCertificateAction

\* revokeCertificateAction up to the offline/token check.
RevStart ==
  /\ flow = "revoke" /\ pc = "start"
  /\ LET e == NumberOfArguments(ctx.nargs, 1)
     IN  IF e # NoErr THEN Fail(e) /\ UNCHANGED token
         ELSE IF ctx.offline /\ ctx.token.kind # "none"
              THEN Fail(IncompatibleFlagWithFlag("offline", "token")) /\ token' = ctx.token
              ELSE pc' = "newFlow" /\ token' = ctx.token /\ UNCHANGED err
  /\ UNCHANGED << flow, ctx, generated, offlineCA, tg, isStepToken, csr, client,
                  request, authCall, statRoot, Files, log >>

\* newOfflineMTLSCA: newOfflineCA after the key pair has been loaded.
newOfflineMTLSCA(loadOK, readOK, parseOK, config, authOK) ==
  IF ~loadOK THEN [err |-> Err("LoadX509KeyPair"), ca |-> NoCA]
  ELSE newOfflineCA(readOK, parseOK, config, authOK)

\* newRevokeFlow
RevNewFlow ==
  /\ flow = "revoke" /\ pc = "newFlow"
  /\ IF ~ctx.offline
     THEN pc' = "token" /\ UNCHANGED << err, offlineCA, log >>
     ELSE IF ctx.caConfig = ""
          THEN Fail(InvalidFlagValue("ca-config", "")) /\ UNCHANGED << offlineCA, log >>
          ELSE \E loadOK \in BOOLEAN, readOK \in BOOLEAN, parseOK \in BOOLEAN,
                  authOK \in BOOLEAN, config \in Configs :
                 LET r == IF ctx.crt # "" \/ ctx.key # ""
                          THEN newOfflineMTLSCA(loadOK, readOK, parseOK, config, authOK)
                          ELSE newOfflineCA(readOK, parseOK, config, authOK)
                 IN  /\ log' = Append(log, "newOfflineCA")
                     /\ offlineCA' = r.ca
                     /\ IF r.err # NoErr THEN Fail(r.err) ELSE pc' = "token" /\ UNCHANGED err
  /\ UNCHANGED << flow, ctx, token, generated, tg, isStepToken, csr, client,
                  request, authCall, statRoot, Files >>

\* revokeCertificateAction with --crt or --key: both are required.
RevPair ==
  /\ flow = "revoke" /\ pc = "token" /\ (ctx.crt # "" \/ ctx.key # "")
  /\ IF ctx.crt = "" THEN Fail(RequiredWithFlag("key", "crt"))
     ELSE IF ctx.key = "" THEN Fail(RequiredWithFlag("crt", "key"))
     ELSE pc' = "revoke" /\ UNCHANGED err
  /\ UNCHANGED << flow, ctx, token, generated, offlineCA, tg, isStepToken, csr,
                  client, request, authCall, statRoot, Files, log >>

\* revokeCertificateAction with a --token and neither --crt nor --key.
RevTokenSupplied ==
  /\ flow = "revoke" /\ pc = "token" /\ ctx.crt = "" /\ ctx.key = ""
  /\ token.kind # "none"
  /\ pc' = "revoke"
  /\ UNCHANGED << flow, ctx, err, token, generated, offlineCA, tg, isStepToken, csr,
                  client, request, authCall, statRoot, Files, log >>

\* revokeFlow.GenerateToken, offline: enters offlineCA.GenerateToken.
RevTokenOffline ==
  /\ flow = "revoke" /\ pc = "token" /\ ctx.crt = "" /\ ctx.key = ""
  /\ token.kind = "none" /\ ctx.offline
  /\ pc' = "tok.prepare"
  /\ tg' = [NoFrame EXCEPT !.typ = "revoke", !.subject = ctx.subject]
  /\ log' = Append(log, "GenerateToken")
  /\ UNCHANGED << flow, ctx, err, token, generated, offlineCA, isStepToken, csr,
                  client, request, authCall, statRoot, Files >>

\* RevTokenOnline going on to Revoke when the token flow failed.
RevTokenOnline_IgnoreError ==
  /\ flow = "revoke" /\ pc = "token" /\ ctx.crt = "" /\ ctx.key = ""
  /\ token.kind = "none" /\ ~ctx.offline
  /\ \E exists \in BOOLEAN, nbOK \in BOOLEAN, naOK \in BOOLEAN,
        prompt \in PromptAnswers, flowOK \in BOOLEAN :
       LET r == onlineGenerateToken(ctx.subject, << >>, ctx.caURL, ctx.root,
                                    exists, nbOK, naOK, prompt, flowOK)
       IN  /\ statRoot' = StatOutcome(r.stat, exists)
           /\ token' = r.token
           /\ generated' = (r.err = NoErr)
           /\ pc' = "revoke" /\ UNCHANGED err
  /\ log' = Append(log, "GenerateToken")
  /\ UNCHANGED << flow, ctx, offlineCA, tg, isStepToken, csr, client, request,
                  authCall, Files >>

\* revokeFlow.GenerateToken, online.
RevTokenOnline ==
  /\ flow = "revoke" /\ pc = "token" /\ ctx.crt = "" /\ ctx.key = ""
  /\ token.kind = "none" /\ ~ctx.offline
  /\ \E exists \in BOOLEAN, nbOK \in BOOLEAN, naOK \in BOOLEAN,
        prompt \in PromptAnswers, flowOK \in BOOLEAN :
       LET r == onlineGenerateToken(ctx.subject, << >>, ctx.caURL, ctx.root,
                                    exists, nbOK, naOK, prompt, flowOK)
       IN  /\ statRoot' = StatOutcome(r.stat, exists)
           /\ token' = r.token
           /\ generated' = (r.err = NoErr)
           /\ IF r.err # NoErr THEN Fail(r.err) ELSE pc' = "revoke" /\ UNCHANGED err
  /\ log' = Append(log, "GenerateToken")
  /\ UNCHANGED << flow, ctx, offlineCA, tg, isStepToken, csr, client, request,
                  authCall, Files >>

\* revokeGetClient without the comparison of the token subject and the serial.
revokeGetClient_NoSubjectCheck(offline, serial, t, crtFile, keyFile, caURL, rootFile, exists, newOK, loadOK, chainOK, poolOK) ==
  IF offline
  THEN [err |-> NoErr, client |-> OfflineClient, stat |-> FALSE, dialed |-> FALSE]
  ELSE IF t.kind # "none"
  THEN IF ~ParseOK(t)
       THEN [err |-> Err("TokenParseFlag"), client |-> NoClient, stat |-> FALSE, dialed |-> FALSE]
       ELSE LET r == tokenClient(t, caURL, rootFile, exists)
            IN  IF r.err # NoErr
                THEN [err |-> r.err, client |-> NoClient, stat |-> r.stat, dialed |-> FALSE]
                ELSE IF ~newOK
                     THEN [err |-> Err("NewClient"), client |-> NoClient, stat |-> r.stat, dialed |-> TRUE]
                     ELSE [err |-> NoErr, client |-> r.client, stat |-> r.stat, dialed |-> TRUE]
  ELSE IF ~loadOK
  THEN [err |-> Err("LoadX509KeyPair"), client |-> NoClient, stat |-> FALSE, dialed |-> FALSE]
  ELSE IF ~chainOK
  THEN [err |-> Err("EmptyCertificateChain"), client |-> NoClient, stat |-> FALSE, dialed |-> FALSE]
  ELSE IF ~poolOK \/ rootFile = ""
  THEN [err |-> Err("ReadCertPool"), client |-> NoClient, stat |-> FALSE, dialed |-> FALSE]
  ELSE IF ~newOK
  THEN [err |-> Err("NewClient"), client |-> NoClient, stat |-> FALSE, dialed |-> TRUE]
  ELSE [err |-> NoErr, client |-> ClientWithTransport(caURL, rootFile), stat |-> FALSE, dialed |-> TRUE]

\* revokeGetClient building the mutual-TLS transport whenever a key pair is
\* given, token or not.
revokeGetClient_PairFirst(offline, serial, t, crtFile, keyFile, caURL, rootFile, exists, newOK, loadOK, chainOK, poolOK) ==
  IF offline
  THEN [err |-> NoErr, client |-> OfflineClient, stat |-> FALSE, dialed |-> FALSE]
  ELSE IF t.kind # "none" /\ ~ParseOK(t)
  THEN [err |-> Err("TokenParseFlag"), client |-> NoClient, stat |-> FALSE, dialed |-> FALSE]
  ELSE IF t.kind # "none" /\ ToLower(t.sub) # ToLower(serial)
  THEN [err |-> Err("TokenSubjectMismatch"), client |-> NoClient, stat |-> FALSE, dialed |-> FALSE]
  ELSE IF t.kind # "none" /\ crtFile = ""
  THEN LET r == tokenClient(t, caURL, rootFile, exists)
       IN  IF r.err # NoErr
           THEN [err |-> r.err, client |-> NoClient, stat |-> r.stat, dialed |-> FALSE]
           ELSE IF ~newOK
                THEN [err |-> Err("NewClient"), client |-> NoClient, stat |-> r.stat, dialed |-> TRUE]
                ELSE [err |-> NoErr, client |-> r.client, stat |-> r.stat, dialed |-> TRUE]
  ELSE IF ~loadOK
  THEN [err |-> Err("LoadX509KeyPair"), client |-> NoClient, stat |-> FALSE, dialed |-> FALSE]
  ELSE IF ~chainOK
  THEN [err |-> Err("EmptyCertificateChain"), client |-> NoClient, stat |-> FALSE, dialed |-> FALSE]
  ELSE IF ~poolOK \/ rootFile = ""
  THEN [err |-> Err("ReadCertPool"), client |-> NoClient, stat |-> FALSE, dialed |-> FALSE]
  ELSE IF ~newOK
  THEN [err |-> Err("NewClient"), client |-> NoClient, stat |-> FALSE, dialed |-> TRUE]
  ELSE [err |-> NoErr, client |-> ClientWithTransport(caURL, rootFile), stat |-> FALSE, dialed |-> TRUE]

\* revokeFlow.getClient.  exists: os.Stat of the default root; newOK:
\* ca.NewClient; loadOK: tls.LoadX509KeyPair; chainOK: the chain is not
\* empty; poolOK: x509util.ReadCertPool, which cannot read the path "".
revokeGetClient(offline, serial, t, crtFile, keyFile, caURL, rootFile, exists, newOK, loadOK, chainOK, poolOK) ==
  IF offline
  THEN [err |-> NoErr, client |-> OfflineClient, stat |-> FALSE, dialed |-> FALSE]
  ELSE IF t.kind # "none"
  THEN IF ~ParseOK(t)
       THEN [err |-> Err("TokenParseFlag"), client |-> NoClient, stat |-> FALSE, dialed |-> FALSE]
       ELSE IF ToLower(t.sub) # ToLower(serial)
       THEN [err |-> Err("TokenSubjectMismatch"), client |-> NoClient, stat |-> FALSE, dialed |-> FALSE]
       ELSE LET r == tokenClient(t, caURL, rootFile, exists)
            IN  IF r.err # NoErr
                THEN [err |-> r.err, client |-> NoClient, stat |-> r.stat, dialed |-> FALSE]
                ELSE IF ~newOK
                     THEN [err |-> Err("NewClient"), client |-> NoClient, stat |-> r.stat, dialed |-> TRUE]
                     ELSE [err |-> NoErr, client |-> r.client, stat |-> r.stat, dialed |-> TRUE]
  ELSE IF ~loadOK
  THEN [err |-> Err("LoadX509KeyPair"), client |-> NoClient, stat |-> FALSE, dialed |-> FALSE]
  ELSE IF ~chainOK
  THEN [err |-> Err("EmptyCertificateChain"), client |-> NoClient, stat |-> FALSE, dialed |-> FALSE]
  ELSE IF ~poolOK \/ rootFile = ""
  THEN [err |-> Err("ReadCertPool"), client |-> NoClient, stat |-> FALSE, dialed |-> FALSE]
  ELSE IF ~newOK
  THEN [err |-> Err("NewClient"), client |-> NoClient, stat |-> FALSE, dialed |-> TRUE]
  ELSE [err |-> NoErr, client |-> ClientWithTransport(caURL, rootFile), stat |-> FALSE, dialed |-> TRUE]

\* revokeFlow.Revoke: the call of getClient.
RevGetClient ==
  /\ flow = "revoke" /\ pc = "revoke"
  /\ \E exists \in BOOLEAN, newOK \in BOOLEAN, loadOK \in BOOLEAN,
        chainOK \in BOOLEAN, poolOK \in BOOLEAN :
       LET r == revokeGetClient(ctx.offline, ctx.subject, token, ctx.crt, ctx.key,
                                ctx.caURL, ctx.root, exists, newOK, loadOK, chainOK, poolOK)
       IN  /\ statRoot' = StatOutcome(r.stat, exists)
           /\ client' = r.client
           /\ log' = IF r.dialed THEN log \o << "getClient", "NewClient" >>
                     ELSE Append(log, "getClient")
           /\ IF r.err # NoErr THEN Fail(r.err) ELSE pc' = "call" /\ UNCHANGED err
  /\ UNCHANGED << flow, ctx, token, generated, offlineCA, tg, isStepToken, csr,
                  request, authCall, Files >>

\* offlineCA.Revoke: the reason code, then authority.Revoke when authOK is
\* its outcome.
offlineRevoke(req, authOK) ==
  LET r == ReasonStringToCode(req.reason)
  IN  IF r.err # NoErr
      THEN [err |-> r.err, call |-> NoAuthCall]
      ELSE [err |-> IF authOK THEN NoErr ELSE Err("authority.Revoke"),
            call |-> [called |-> TRUE, serial |-> req.subject, code |-> r.code]]

\* revokeFlow.Revoke: the request and client.Revoke.
RevRevoke ==
  /\ flow = "revoke" /\ pc = "call"
  /\ request' = [op |-> "Revoke", subject |-> ctx.subject, reason |-> ctx.reason,
                 ott |-> token]
  /\ \E ok \in BOOLEAN :
       LET r == IF client.kind = "offline"
                THEN offlineRevoke(request', ok)
                ELSE [err |-> IF ok THEN NoErr ELSE Err("ca.Revoke"), call |-> NoAuthCall]
       IN  /\ authCall' = r.call
           /\ log' = IF r.call.called THEN log \o << "Revoke", "authority.Revoke" >>
                     ELSE Append(log, "Revoke")
           /\ IF r.err # NoErr THEN Fail(r.err) ELSE pc' = "print" /\ UNCHANGED err
  /\ UNCHANGED << flow, ctx, token, generated, offlineCA, tg, isStepToken, csr,
                  client, statRoot, Files >>

\* revokeCertificateAction: the message, return nil.
RevPrint ==
  /\ flow = "revoke" /\ pc = "print"
  /\ printed' = TRUE
  /\ pc' = "done"
  /\ UNCHANGED << flow, ctx, err, token, generated, offlineCA, tg, isStepToken, csr,
                  client, request, authCall, statRoot, crtWritten, keyWritten, log >>

\* ----------------------------------------------------------- specifications

Next ==
  \/ CertStart
  \/ CertNewFlow
  \/ CertTokenSupplied
  \/ CertTokenOffline
  \/ CertTokenOnline
  \/ CertCreateSignRequest
  \/ CertValidate
  \/ CertGetClient
  \/ CertParseValidity
  \/ CertSign
  \/ CertWriteCrt
  \/ CertWriteKey
  \/ TokPrepare
  \/ TokFilter
  \/ TokSelect
  \/ TokSign
  \/ RevStart
  \/ RevNewFlow
  \/ RevPair
  \/ RevTokenSupplied
  \/ RevTokenOffline
  \/ RevTokenOnline
  \/ RevGetClient
  \/ RevRevoke
  \/ RevPrint

Spec == Init /\ [][Next]_vars

\* GenerateToken called on an embedded client, as by a command that defines
\* the --kid and --issuer flags.
TokenContexts ==
  [nargs : {1}, subject : Subjects, token : {NoToken}, offline : {TRUE},
   sans : {<< >>}, caConfig : {"ca.json"}, caURL : {<< >>}, root : {""},
   crt : {""}, key : {""}, reason : {<< >>},
   kid : {"", "K1", "K2", "K9"}, issuer : {"", "acme", "ops", "nobody"}]

\* The embedded clients that newOfflineCA returns.
OfflineCAs ==
  { newOfflineCA(TRUE, TRUE, config, TRUE).ca :
      config \in { c \in Configs : Len(c.provisioners) > 0 } }

InitToken ==
  /\ flow = "token"
  /\ ctx \in TokenContexts
  /\ pc = "tok.prepare"
  /\ offlineCA \in OfflineCAs
  /\ InitLocals

NextToken ==
  \/ TokPrepare
  \/ TokFilter
  \/ TokSelect
  \/ TokSign

SpecToken == InitToken /\ [][NextToken]_vars

\* `step ca revoke --offline <serial>` without a token, for every value of
\* --reason.
OfflineRevokeContexts ==
  { c \in [nargs : {1}, subject : {<<"a">>}, token : {NoToken}, offline : {TRUE},
           sans : {<< >>}, caConfig : {"ca.json"}, caURL : {<< >>}, root : {""},
           crt : {"", "a.crt"}, key : {"", "a.key"}, reason : AllReasons,
           kid : {""}, issuer : {""}] :
      (c.crt = "") = (c.key = "") }

InitOfflineRevoke ==
  /\ flow = "revoke"
  /\ ctx \in OfflineRevokeContexts
  /\ pc = "start"
  /\ offlineCA = NoCA
  /\ InitLocals

NextOfflineRevoke ==
  \/ RevStart
  \/ RevNewFlow
  \/ RevPair
  \/ RevTokenOffline
  \/ TokPrepare
  \/ TokFilter
  \/ TokSelect
  \/ TokSign
  \/ RevGetClient
  \/ RevRevoke
  \/ RevPrint

SpecOfflineRevoke == InitOfflineRevoke /\ [][NextOfflineRevoke]_vars

\* SAN values of the calls of CreateSignRequest alone: two DNS names and an
\* IP address.
MergeSanNames == SanNames \cup { <<"b">> }

MergeSanLists == SeqsUpTo(MergeSanNames, MaxMergeSans)

\* certificateFlow.CreateSignRequest(token, sans) called with any SAN list
\* and any token: one that does not parse, or one with any "sans" claim.
SignRequestTokens ==
  { BadToken } \cup
  { JWT(<<"a">>, "fp", sans, email, << >>) : sans \in MergeSanLists, email \in TokenEmails }

SignRequestContexts ==
  [nargs : {3}, subject : {<<"a">>}, token : SignRequestTokens, offline : {FALSE},
   sans : MergeSanLists, caConfig : {""}, caURL : {<< >>}, root : {""},
   crt : {""}, key : {""}, reason : {<< >>}, kid : {""}, issuer : {""}]

InitSignRequest ==
  /\ flow = "csr"
  /\ ctx \in SignRequestContexts
  /\ pc = "csr"
  /\ offlineCA = NoCA
  /\ err = NoErr
  /\ token = ctx.token
  /\ generated = FALSE
  /\ tg = NoFrame
  /\ isStepToken = FALSE
  /\ csr = NoCSR
  /\ client = NoClient
  /\ request = NoRequest
  /\ authCall = NoAuthCall
  /\ statRoot = "unknown"
  /\ crtWritten = FALSE
  /\ keyWritten = FALSE
  /\ printed = FALSE
  /\ log = << >>

NextSignRequest == CertCreateSignRequest

SpecSignRequest == InitSignRequest /\ [][NextSignRequest]_vars

\* ------------------------------------------------------------------ claims

\* The number of positional arguments the running command requires.
RequiredArgs == IF flow = "issue" THEN 3 ELSE 1

\* The position of the first occurrence of call c in the log, 0 if none.
FirstCall(c) ==
  IF \E i \in 1..Len(log) : log[i] = c
  THEN CHOOSE i \in 1..Len(log) : log[i] = c /\ \A j \in 1..(i - 1) : log[j] # c
  ELSE 0

Called(c) == FirstCall(c) # 0

\* How many times call c is in the log.
Calls(c) == Cardinality({ i \in 1..Len(log) : log[i] = c })

\* C1: an invocation of either command that has its positional arguments
\* and has --offline set and a non-empty --token ends with the
\* IncompatibleFlagWithFlag(offline, token) error, whatever the other flags
\* are, and at no point has it constructed an embedded authority, generated
\* a token, built a CSR, created a client or called Sign or Revoke.
C1_OfflineTokenConflict ==
  (ctx.offline /\ ctx.token.kind # "none" /\ ctx.nargs = RequiredArgs) =>
    /\ pc \in {"start", "done"}
    /\ pc = "done" => err = IncompatibleFlagWithFlag("offline", "token")
    /\ log = << >>
    /\ ~offlineCA.built /\ ~generated /\ ~csr.built
    /\ client = NoClient /\ request = NoRequest /\ ~authCall.called
    /\ ~crtWritten /\ ~keyWritten /\ ~printed

\* C1 witness: a finished offline invocation of the issue flow with a
\* token, SANs and no --ca-config, rejected for the flag conflict.
C1_Witness ==
  /\ pc = "done" /\ flow = "issue"
  /\ ctx.offline /\ ctx.token.kind = "jwt" /\ ctx.caConfig = "" /\ Len(ctx.sans) > 0
  /\ err = IncompatibleFlagWithFlag("offline", "token")

\* The lower-cased subject claim of the supplied token differs from the
\* lower-cased <subject> / <serial-number> argument.
SubjectsDiffer == ToLower(ctx.token.sub) # ToLower(ctx.subject)

\* The supplied token is one whose subject the flow compares: any token in
\* the revoke flow, an authority-native token in the issue flow.
SubjectCompared == flow = "revoke" \/ isStepCertificatesToken(ctx.token)

\* No check that precedes the comparison of the subjects fails on the
\* flags: the arguments are there, no offline/token conflict, no token/san
\* conflict (issue), --crt and --key both or neither (revoke).
FlagsPassEarlierChecks ==
  /\ ctx.nargs = RequiredArgs
  /\ ~ctx.offline
  /\ flow = "issue" => Len(ctx.sans) = 0
  /\ flow = "revoke" => ((ctx.crt = "") = (ctx.key = ""))

\* C2 as stated, for the invocations on which no earlier check fails and,
\* in the issue flow, the CSR is built: for every parseable supplied token a
\* finished flow has failed with the token-subject-mismatch error exactly
\* when the folded subjects differ, native token or not, and when they
\* differ Sign/Revoke has not been called.
C2_Original ==
  (pc = "done" /\ ParseOK(ctx.token) /\ FlagsPassEarlierChecks
     /\ (flow = "issue" => csr.built)) =>
    /\ (err.kind = "TokenSubjectMismatch") <=> SubjectsDiffer
    /\ SubjectsDiffer => request = NoRequest

\* C2 amended: for a parseable supplied token, (1) the flow fails with the
\* token-subject-mismatch error only if the folded subjects differ and the
\* subject is compared; (2) when the subject is compared and the folded
\* subjects differ, Sign/Revoke is never called, a finished flow has failed,
\* and it has failed with the mismatch error when no earlier check failed
\* (in the issue flow, once the CSR is built); (3) for an email-claim token
\* the issue flow compares the email claim with the argument exactly: it
\* fails with the email-mismatch error only if they are not equal, and Sign
\* is called only if they are equal.
C2_SubjectMismatch ==
  ParseOK(ctx.token) =>
    /\ err.kind = "TokenSubjectMismatch" => (SubjectsDiffer /\ SubjectCompared)
    /\ (SubjectsDiffer /\ SubjectCompared) =>
         /\ request = NoRequest /\ ~Called("Sign") /\ ~Called("Revoke")
         /\ pc = "done" => err # NoErr
         /\ (pc = "done" /\ FlagsPassEarlierChecks /\ (flow = "issue" => csr.built))
              => err.kind = "TokenSubjectMismatch"
    /\ (flow = "issue" /\ ~isStepCertificatesToken(ctx.token)) =>
         /\ err.kind = "TokenEmailMismatch" =>
              (ctx.token.email # << >> /\ ctx.token.email # ctx.subject)
         /\ request.op = "Sign" => ctx.token.email = ctx.subject
         /\ (pc = "done" /\ csr.built /\ ctx.token.email # ctx.subject) =>
              err.kind \in {"NoEmailClaim", "TokenEmailMismatch"}

\* C2 witness: the issue flow rejected a native token whose subject differs
\* from the argument.
C2_Witness ==
  /\ pc = "done" /\ err.kind = "TokenSubjectMismatch"
  /\ ParseOK(ctx.token) /\ SubjectsDiffer /\ flow = "issue"

\* C3: the request handed to client.Sign carries a parseable, non-empty
\* token whose folded subject is the folded common name of the CSR; the
\* request handed to client.Revoke carries such a token for the serial,
\* unless --crt and --key were given without a token, and then it carries
\* the empty token.
C3_RequestBackedByToken ==
  /\ request.op = "Sign" =>
       /\ ParseOK(request.ott)
       /\ csr.built /\ request.subject = csr.cn
       /\ ToLower(request.ott.sub) = ToLower(csr.cn)
  /\ request.op = "Revoke" =>
       /\ request.subject = ctx.subject
       /\ \/ /\ ParseOK(request.ott)
             /\ ToLower(request.ott.sub) = ToLower(ctx.subject)
          \/ /\ ctx.crt # "" /\ ctx.key # "" /\ ctx.token.kind = "none"
             /\ request.ott = NoToken

\* C3 witness: Revoke was called on a remote client with a supplied token
\* whose subject is the serial in another case.
C3_Witness ==
  /\ request.op = "Revoke" /\ client.kind = "remote"
  /\ ctx.token.kind = "jwt" /\ ctx.token.sub # ctx.subject

\* Call a is in the log and call b, if in the log, comes after it.
Before(a, b) == Called(b) => (Called(a) /\ FirstCall(a) < FirstCall(b))

\* C4: the certificate file is written only after client.Sign returned a
\* response and both certificates were serialized, the key file only after
\* the certificate file was written; a flow that failed before or in Sign
\* has written neither file.
C4_WriteOrder ==
  /\ Called("WriteCrt") =>
       /\ Before("Sign", "SignResponse") /\ Called("SignResponse")
       /\ Before("SignResponse", "Serialize") /\ Called("Serialize")
       /\ Before("Serialize", "WriteCrt")
  /\ crtWritten => (Called("WriteCrt") /\ request.op = "Sign" /\ csr.built /\ client # NoClient)
  /\ Called("WriteKey") => (crtWritten /\ Before("WriteCrt", "WriteKey"))
  /\ keyWritten => (crtWritten /\ Called("WriteKey"))
  /\ (pc = "done" /\ ~Called("SignResponse")) => (~crtWritten /\ ~keyWritten)
  /\ (pc = "done" /\ err.kind \in
        {"RequiredUnlessFlag", "Prompt", "newTokenFlow", "parseValidity", "Select",
         "NoEncryptedKey", "Decrypt", "UnmarshalKey", "generateToken",
         "TokenParse", "GenerateDefaultKey", "CreateCertificateRequest",
         "TokenSubjectMismatch", "NoEmailClaim", "TokenEmailMismatch",
         "RequiredFlag", "NewClient", "authority.Authorize", "authority.Sign",
         "ca.Sign"})
       => (~crtWritten /\ ~keyWritten)

\* C4 witness: the issue flow wrote both files.
C4_Witness ==
  pc = "done" /\ flow = "issue" /\ err = NoErr /\ crtWritten /\ keyWritten

\* C5 as stated: a finished issue flow either succeeded with both files
\* written or failed with neither written.
C5_Original ==
  (pc = "done" /\ flow = "issue") =>
    \/ err = NoErr /\ crtWritten /\ keyWritten
    \/ err # NoErr /\ ~crtWritten /\ ~keyWritten

\* --crt and --key are both given.
PairGiven == ctx.crt # "" /\ ctx.key # ""

\* C6 as stated: in the online revoke flow with --crt and --key, no token is
\* generated, Revoke carries the supplied token (the empty one when none was
\* supplied), and the remote client presents the client certificate, with
\* a token as without.
C6_Original ==
  (flow = "revoke" /\ ~ctx.offline /\ PairGiven /\ request.op = "Revoke") =>
    /\ ~generated /\ ~Called("GenerateToken")
    /\ request.ott = ctx.token
    /\ client.kind = "remote" /\ client.trust = "mtls"

\* C6 amended: in the online revoke flow with --crt and --key no token is
\* ever generated and Revoke carries the supplied token; without a token the
\* remote client is the one built on the transport that presents the client
\* certificate and the request's token is empty; with a token the remote
\* client is the one built from the token (root pinned by the fingerprint,
\* or --ca-url with a root file) and does not present the client certificate.
C6_PairAndToken ==
  (flow = "revoke" /\ ~ctx.offline /\ PairGiven) =>
    /\ ~generated /\ ~Called("GenerateToken") /\ tg = NoFrame
    /\ request.op = "Revoke" =>
         /\ request.ott = ctx.token
         /\ client.kind = "remote"
         /\ IF ctx.token.kind = "none"
            THEN /\ request.ott = NoToken
                 /\ client = ClientWithTransport(ctx.caURL, ctx.root)
            ELSE /\ client.trust \in {"sha256", "rootfile"}
                 /\ \E exists \in BOOLEAN :
                      client = tokenClient(ctx.token, ctx.caURL, ctx.root, exists).client

\* C6 witness: Revoke was called online with --crt, --key and a token.
C6_Witness ==
  /\ flow = "revoke" /\ ~ctx.offline /\ PairGiven
  /\ ctx.token.kind = "jwt" /\ request.op = "Revoke"

\* C7: in the revoke flow without --crt, --key and --token, client.Revoke
\* is called at most once and only after GenerateToken returned a token;
\* that token's subject is the serial, it was made by the embedded client's
\* generator when offline and by the token flow when online, and the request
\* is the serial, the --reason value and that token; when generation fails,
\* Revoke is never called and the success message is never printed.
C7_GenerateThenRevoke ==
  (flow = "revoke" /\ ctx.crt = "" /\ ctx.key = "" /\ ctx.token.kind = "none") =>
    /\ Calls("GenerateToken") <= 1 /\ Calls("Revoke") <= 1
    /\ Called("Revoke") =>
         /\ generated /\ Before("GenerateToken", "Revoke")
         /\ ParseOK(token) /\ token.sub = ctx.subject
         /\ request = [op |-> "Revoke", subject |-> ctx.subject,
                       reason |-> ctx.reason, ott |-> token]
    /\ (generated /\ (ctx.offline \/ ctx.subject # << >>)) => token.sub = ctx.subject
    /\ generated => (IF ctx.offline THEN tg.typ = "revoke" ELSE tg = NoFrame)
    /\ ~generated => (~Called("Revoke") /\ request = NoRequest /\ ~printed)
    /\ printed => (Called("Revoke") /\ err = NoErr)

\* C7 witness: the online flow generated a token for the serial, revoked
\* with reason KeyCompromise and printed the message.
C7_Witness ==
  /\ flow = "revoke" /\ ctx.crt = "" /\ ctx.key = "" /\ ctx.token.kind = "none"
  /\ ~ctx.offline /\ generated /\ printed
  /\ request.reason = <<"K","e","y","C","o","m","p","r","o","m","i","s","e">> /\ request.ott.sub = ctx.subject

\* The reason names with their RFC 5280 reason codes.
RFC5280Reasons ==
  { <<<<"U","n","s","p","e","c","i","f","i","e","d">>, 0>>,
    <<<<"K","e","y","C","o","m","p","r","o","m","i","s","e">>, 1>>,
    <<<<"C","A","C","o","m","p","r","o","m","i","s","e">>, 2>>,
    <<<<"A","f","f","i","l","i","a","t","i","o","n","C","h","a","n","g","e","d">>, 3>>,
    <<<<"S","u","p","e","r","s","e","d","e","d">>, 4>>,
    <<<<"C","e","s","s","a","t","i","o","n","O","f","O","p","e","r","a","t","i","o","n">>, 5>>,
    <<<<"C","e","r","t","i","f","i","c","a","t","e","H","o","l","d">>, 6>>,
    <<<<"R","e","m","o","v","e","F","r","o","m","C","R","L">>, 8>>,
    <<<<"P","r","i","v","i","l","e","g","e","W","i","t","h","d","r","a","w","n">>, 9>>,
    <<<<"A","A","C","o","m","p","r","o","m","i","s","e">>, 10>> }

\* The reason is unset or is one of the ten names in some spelling.
KnownReason(reason) ==
  reason = << >> \/ \E e \in RFC5280Reasons : ToLower(e[1]) = ToLower(reason)

\* The RFC 5280 code of a known reason.
RFC5280Code(reason) ==
  IF reason = << >> THEN 0
  ELSE (CHOOSE e \in RFC5280Reasons : ToLower(e[1]) = ToLower(reason))[2]

\* C8: once the embedded client's Revoke has run, authority.Revoke was
\* called exactly if --reason is empty or one of the ten names in any case,
\* and then with the serial and the RFC 5280 code of the name; otherwise the
\* flow failed with the unrecognized-reason error.
C8_ReasonCodes ==
  (request.op = "Revoke" /\ client.kind = "offline") =>
    /\ authCall.called <=> KnownReason(request.reason)
    /\ authCall.called <=> Called("authority.Revoke")
    /\ authCall.called =>
         /\ authCall.serial = request.subject
         /\ authCall.code = RFC5280Code(request.reason)
    /\ ~KnownReason(request.reason) =>
         /\ pc = "done" /\ err = Err("UnrecognizedRevocationReason") /\ ~printed

\* C8 witness: authority.Revoke was called with code 10 for a spelling of
\* AACompromise that is not the usage text's.
C8_Witness ==
  /\ request.op = "Revoke" /\ client.kind = "offline"
  /\ authCall.called /\ authCall.code = 10
  /\ request.reason \notin ReasonNames

\* The provisioners of the configuration that satisfy the supplied filters.
Matching ==
  SelectSeq(offlineCA.provisioners,
            LAMBDA p : (ctx.kid = "" \/ p.kid = ctx.kid)
                         /\ (ctx.issuer = "" \/ p.name = ctx.issuer))

KidMatching ==
  SelectSeq(offlineCA.provisioners, LAMBDA p : ctx.kid = "" \/ p.kid = ctx.kid)

\* GenerateToken has got past Root, Audience and parseValidity.
Prepared == tg.audience # << >>

\* C9: after the filters the candidates are the provisioners of the
\* configuration that satisfy every supplied filter, in list order; the key
\* id, name and encrypted key that sign the token are those of one of them;
\* when the --kid filter, or after it the --issuer filter, leaves none, the
\* call fails with InvalidFlagValue for that flag and value and generates
\* no token.
C9_OneProvisioner ==
  /\ (pc \in {"tok.select", "tok.decrypt"} \/ generated) =>
       (tg.provisioners = Matching /\ Len(tg.provisioners) >= 1)
  /\ (pc = "tok.decrypt" \/ generated) =>
       \E i \in 1..Len(tg.provisioners) :
         /\ tg.kid = tg.provisioners[i].kid
         /\ tg.issuer = tg.provisioners[i].name
         /\ tg.encryptedKey = tg.provisioners[i].encryptedKey
         /\ ctx.kid # "" => tg.provisioners[i].kid = ctx.kid
         /\ ctx.issuer # "" => tg.provisioners[i].name = ctx.issuer
         /\ \E j \in 1..Len(offlineCA.provisioners) :
              offlineCA.provisioners[j] = tg.provisioners[i]
  /\ generated => tg.encryptedKey # ""
  /\ (pc = "done" /\ Prepared /\ ctx.kid # "" /\ Len(KidMatching) = 0) =>
       (err = InvalidFlagValue("kid", ctx.kid) /\ ~generated /\ token = NoToken)
  /\ (pc = "done" /\ Prepared /\ Len(KidMatching) > 0 /\ ctx.issuer # ""
        /\ Len(Matching) = 0) =>
       (err = InvalidFlagValue("issuer", ctx.issuer) /\ ~generated /\ token = NoToken)
  /\ err.kind = "InvalidFlagValue" => Len(Matching) = 0

\* C9 witness: --kid matched a provisioner, --issuer names a provisioner
\* of the list that has another key id, and the call failed for --issuer.
C9_Witness ==
  /\ pc = "done" /\ ctx.kid = "K2" /\ ctx.issuer = "ops"
  /\ \E j \in 1..Len(offlineCA.provisioners) : offlineCA.provisioners[j].name = "ops"
  /\ err = InvalidFlagValue("issuer", "ops")

\* The token has a fingerprint claim and a first audience that begins with
\* "http" in any case.
Bootstrap(t) ==
  t.sha # "" /\ Len(t.aud) > 0 /\ HasPrefix(ToLower(t.aud[1]), <<"h","t","t","p">>)

\* C10: a remote client built from a token is, when the token has a
\* fingerprint and an http audience, the client for that audience with the
\* root pinned by the fingerprint, and the default root path is not
\* consulted for a supplied token; otherwise it is the client for --ca-url
\* with the --root file, or with the default root when --root is empty and
\* the default exists.  getClient fails with RequiredFlag(ca-url) exactly
\* when it gets that far with no such token and no --ca-url, and with
\* RequiredFlag(root) exactly when --ca-url is given, --root is not and the
\* default root does not exist.
C10_RootOfTrust ==
  /\ (client.kind = "remote" /\ token.kind # "none") =>
       IF Bootstrap(token)
       THEN client = ClientWithRootSHA256(token.aud[1], token.sha)
       ELSE /\ ctx.caURL # << >>
            /\ client = ClientWithRootFile(ctx.caURL,
                          IF ctx.root # "" THEN ctx.root ELSE DefaultRootCAPath)
            /\ ctx.root = "" => statRoot = "exists"
  /\ (ctx.token.kind # "none" /\ Bootstrap(ctx.token)) => statRoot = "unknown"
  /\ err = RequiredFlag("ca-url") =>
       (~Bootstrap(token) /\ ctx.caURL = << >> /\ ~Called("NewClient"))
  /\ err = RequiredFlag("root") =>
       /\ ~Bootstrap(token) /\ ctx.caURL # << >> /\ ctx.root = ""
       /\ statRoot = "missing" /\ ~Called("NewClient")
  /\ (pc = "done" /\ Called("getClient") /\ ~ctx.offline /\ ParseOK(token)
        /\ ToLower(token.sub) = ToLower(ctx.subject) /\ ~Bootstrap(token)) =>
       /\ ctx.caURL = << >> => err = RequiredFlag("ca-url")
       /\ (ctx.caURL # << >> /\ ctx.root = "" /\ statRoot = "missing") =>
            err = RequiredFlag("root")
       /\ (ctx.caURL # << >> /\ (ctx.root # "" \/ statRoot = "exists")) =>
            Called("NewClient")

\* C10 witness: a token with a fingerprint and an https audience gave the
\* pinned client although neither --ca-url nor --root was given.
C10_Witness ==
  /\ client.kind = "remote" /\ client.trust = "sha256"
  /\ ctx.token.kind = "jwt" /\ client.caURL = ctx.token.aud[1]
  /\ ctx.caURL = << >> /\ ctx.root = ""

\* Exactly one of --crt and --key is given.
OneOfPair == (ctx.crt = "") # (ctx.key = "")

\* errs.RequiredWithFlag for the flag of the pair that is missing.
MissingPairFlag ==
  IF ctx.crt = "" THEN RequiredWithFlag("key", "crt") ELSE RequiredWithFlag("crt", "key")

\* C11 as stated, for the invocations that have their serial argument and
\* no offline/token conflict: a finished revoke flow given exactly one of
\* --crt and --key has failed with the required-with-flag error for the
\* missing flag, online and offline, and it has neither generated a token
\* nor called Revoke.
C11_Original ==
  (flow = "revoke" /\ pc = "done" /\ OneOfPair /\ ctx.nargs = RequiredArgs
     /\ ~(ctx.offline /\ ctx.token.kind # "none")) =>
    /\ err = MissingPairFlag
    /\ ~generated /\ ~Called("GenerateToken") /\ ~Called("Revoke")

\* C12 as stated, in what it says last, for the invocations that have their
\* three arguments, are online and carry a parseable token: with a --token
\* and a non-empty --san list the issue flow fails before Sign is called,
\* so Sign is never called.
C12_Original ==
  (flow = "issue" /\ ctx.nargs = RequiredArgs /\ ~ctx.offline
     /\ ParseOK(ctx.token) /\ Len(ctx.sans) > 0) =>
    (request.op # "Sign" /\ ~Called("Sign"))

\* C13 as stated, for a supplied token: when --san is not given and the
\* token declares no SANs, the CSR that CreateSignRequest built has the
\* token's subject as common name and exactly one SAN, that subject, among
\* its DNS names and IP addresses.
C13_Original ==
  (flow = "issue" /\ csr.built /\ ctx.token.kind = "jwt"
     /\ ctx.sans = << >> /\ ctx.token.sans = << >>) =>
    /\ csr.cn = ctx.token.sub
    /\ csr.dnsNames \o csr.ipAddresses = << ctx.token.sub >>

\* The position of the first occurrence of x in the list s, 0 if none.
FirstIndex(s, x) ==
  IF \E i \in 1..Len(s) : s[i] = x
  THEN CHOOSE i \in 1..Len(s) : s[i] = x /\ \A j \in 1..(i - 1) : s[j] # x
  ELSE 0

\* The elements of the list s.
Elements(s) == { s[i] : i \in 1..Len(s) }

\* No element occurs twice in the list s.
NoDuplicates(s) == \A i, j \in 1..Len(s) : s[i] = s[j] => i = j

\* C14: for the caller's list A and the token's list B handed to
\* CreateSignRequest, the list splitSANs merges holds exactly the elements
\* of A and B, each once, in the order of their first occurrence in A
\* followed by B; merging that list again, alone or followed by A or by B,
\* gives the same list; and the CSR's DNS names and IP addresses together
\* hold every element of A and of B exactly once, each in one bucket only,
\* in the merged order.
C14_MergeSANs ==
  (flow = "csr" /\ csr.built) =>
    LET A == ctx.sans
        B == token.sans
        AB == A \o B
        merged == uniqueSANs(AB, << >>)
        buckets == csr.dnsNames \o csr.ipAddresses
    IN  /\ NoDuplicates(merged)
        /\ Elements(merged) = Elements(A) \cup Elements(B)
        /\ \A i, j \in 1..Len(merged) :
             i < j => FirstIndex(AB, merged[i]) < FirstIndex(AB, merged[j])
        /\ uniqueSANs(merged, << >>) = merged
        /\ uniqueSANs(merged \o A, << >>) = merged
        /\ uniqueSANs(merged \o B, << >>) = merged
        /\ NoDuplicates(buckets)
        /\ Elements(buckets) = Elements(A) \cup Elements(B)
        /\ \A x \in Elements(csr.dnsNames) : ~IsIP(x)
        /\ \A x \in Elements(csr.ipAddresses) : IsIP(x)
        /\ \A i, j \in 1..Len(csr.dnsNames) :
             i < j => FirstIndex(AB, csr.dnsNames[i]) < FirstIndex(AB, csr.dnsNames[j])
        /\ \A i, j \in 1..Len(csr.ipAddresses) :
             i < j => FirstIndex(AB, csr.ipAddresses[i]) < FirstIndex(AB, csr.ipAddresses[j])

\* C14 witness: CreateSignRequest built the CSR for --san 1.1 --san a and a
\* token declaring a and b: DNS names a, b and IP address 1.1.
C14_Witness ==
  /\ flow = "csr" /\ csr.built
  /\ ctx.sans = << <<"1", ".", "1">>, <<"a">> >>
  /\ token.sans = << <<"a">>, <<"b">> >>
  /\ csr.dnsNames = << <<"a">>, <<"b">> >>
  /\ csr.ipAddresses = << <<"1", ".", "1">> >>

====
